---- MODULE Spec2Model ----
(***************************************************************************)
(* BatchingQueue of tana-mcp (src/BEST-PRACTICES.md, lines 1899-2167):     *)
(* admission checks, splitting of large createNodes requests, the paced    *)
(* single worker loop, retry with exponential backoff, node-count          *)
(* tracking.                                                               *)
(*                                                                         *)
(* One action is one run-to-completion segment of the JavaScript event     *)
(* loop: the code between two awaits runs atomically.  Time is Date.now()  *)
(* in milliseconds; timers fire once their delay has elapsed.              *)
(***************************************************************************)
EXTENDS Integers, Sequences, FiniteSets, TLC

\* ---------------------------------------------------------------- bounds
MaxCalls == 2
MaxNodes == 3
MaxTicks == 2

\* Date.now() when the queue is constructed (lastRequestTime starts at 0, so
\* the first pacing check never waits).
StartTime == 10000

\* The clock is observed every half second.
TimeSteps == {500}

\* Serialized length of one node spec / of a whole setName request.
NodeLens == {12, 20}
NameLens == {30}

\* Values handed to setNodeCount by the embedding application.
SeedCounts == {-1, 2}

\* Configurations handed to the constructor (Partial<BatchingOptions>).
OptionSets ==
  [ maxNodesPerRequest : {2},
    maxPayloadSize     : {70},
    maxWorkspaceNodes  : {MaxNodes},
    rateLimit          : {1},
    maxRetries         : {0, 1},
    baseBackoffMs      : {500} ]

VARIABLES
  options,          \* BatchingOptions, fixed at construction
  queue,            \* this.queue: sequence of entry ids (req_<n>)
  entries,          \* every QueuedRequest ever created, indexed by id
  processing,       \* this.processing
  lastRequestTime,  \* this.lastRequestTime
  totalNodeCount,   \* this.totalNodeCount
  requestId,        \* this.requestId
  now,              \* Date.now()
  pc,               \* where processQueue is suspended
  cur,              \* the entry held by the worker (0: none)
  wakeAt,           \* deadline of the worker's pending sleep()
  calls,            \* every caller-level enqueue() call and its promise
  dispatchLog,      \* history: the entries handed to executeRequest, in order
  lastDispatchAt,   \* history: time of the latest executeRequest call
  dispatchGap,      \* history: time between the latest two calls (-1: none)
  completions,      \* history: caller promises in order of settlement
  chunking          \* the frame of a running chunkNodes call: its arguments,
                    \* its loop variable i and the chunks built so far

vars == << options, queue, entries, processing, lastRequestTime,
           totalNodeCount, requestId, now, pc, cur, wakeAt, calls,
           dispatchLog, lastDispatchAt, dispatchGap, completions, chunking >>

\* ------------------------------------------------------------- requests
Iota(n) == [i \in 1..n |-> i]

CreateRequest(nodes, len) == [kind |-> "create", nodes |-> nodes, len |-> len]
SetNameRequest(len) == [kind |-> "setName", nodes |-> << >>, len |-> len]

Requests ==
  { CreateRequest(Iota(k), 12) : k \in 1..MaxNodes }
    \cup { CreateRequest(Iota(MaxNodes), l) : l \in NodeLens }
    \cup { SetNameRequest(l) : l \in NameLens }

isCreateNodesRequest(request) == request.kind = "create"

\* JSON.stringify(request).length: {"nodes":[ n1,n2,... ]} is 12 characters
\* of envelope, the node specs and one comma between neighbours.
payloadSize(request) ==
  IF isCreateNodesRequest(request)
    THEN LET n == Len(request.nodes)
         IN  12 + n * request.len + (IF n > 0 THEN n - 1 ELSE 0)
    ELSE request.len

Min(a, b) == IF a < b THEN a ELSE b

\* Mutant of chunkFrom: the slice ends one element early when it is not the
\* last one, and the next slice starts where it should.
RECURSIVE chunkFromShort(_, _, _)
chunkFromShort(nodes, chunkSize, i) ==
  IF i >= Len(nodes) THEN << >>
  ELSE << SubSeq(nodes, i + 1, Min(i + chunkSize, Len(nodes) + 1) - 1) >>
         \o chunkFromShort(nodes, chunkSize, i + chunkSize)

\* nodes.slice(i, i + chunkSize) for i = 0, chunkSize, 2*chunkSize, ...
RECURSIVE chunkFrom(_, _, _)
chunkFrom(nodes, chunkSize, i) ==
  IF i >= Len(nodes) THEN << >>
  ELSE << SubSeq(nodes, i + 1, Min(i + chunkSize, Len(nodes))) >>
         \o chunkFrom(nodes, chunkSize, i + chunkSize)

chunkNodes(nodes, chunkSize) == chunkFrom(nodes, chunkSize, 0)

NoResponse == [hasChildren |-> FALSE, children |-> << >>]

\* Mutant of combineFrom: each response is put in front of the earlier ones.
RECURSIVE combineFromFront(_, _)
combineFromFront(responses, acc) ==
  IF responses = << >> THEN acc
  ELSE combineFromFront(Tail(responses),
                        IF Head(responses).hasChildren
                          THEN Head(responses).children \o acc
                          ELSE acc)

\* The loop of combineResponses: children = children.concat(response.children)
RECURSIVE combineFrom(_, _)
combineFrom(responses, acc) ==
  IF responses = << >> THEN acc
  ELSE combineFrom(Tail(responses),
                   IF Head(responses).hasChildren
                     THEN acc \o Head(responses).children
                     ELSE acc)

combineResponses(responses) ==
  [hasChildren |-> TRUE, children |-> combineFrom(responses, << >>)]

\* What the transport executor may answer to a request.
Responses(request) ==
  IF isCreateNodesRequest(request)
    THEN { NoResponse } \cup
         { [hasChildren |-> TRUE, children |-> SubSeq(request.nodes, 1, k)] :
             k \in { Len(request.nodes) - 1, Len(request.nodes) } \ {0} }
    ELSE { [hasChildren |-> TRUE, children |-> << 0 >>] }

\* ------------------------------------------------------------ admission
\* Mutant of quotaExceeded: a request that exactly fills the workspace is denied.
quotaExceededAtLimit(request) ==
  LET estimatedNewNodes ==
        IF isCreateNodesRequest(request) THEN Len(request.nodes) ELSE 0
  IN  totalNodeCount + estimatedNewNodes >= options.maxWorkspaceNodes

quotaExceeded(request) ==
  LET estimatedNewNodes ==
        IF isCreateNodesRequest(request) THEN Len(request.nodes) ELSE 0
  IN  totalNodeCount + estimatedNewNodes > options.maxWorkspaceNodes

\* Mutant of payloadTooLarge: a create that will be split is measured chunk
\* by chunk.
payloadTooLargeByChunk(request) ==
  IF isCreateNodesRequest(request)
       /\ Len(request.nodes) > options.maxNodesPerRequest
    THEN LET chunks == chunkNodes(request.nodes, options.maxNodesPerRequest)
         IN  \E i \in DOMAIN chunks :
               payloadSize(CreateRequest(chunks[i], request.len))
                 > options.maxPayloadSize
    ELSE payloadSize(request) > options.maxPayloadSize

\* JSON.stringify(request).length > maxPayloadSize
payloadTooLarge(request) == payloadSize(request) > options.maxPayloadSize

\* Mutant of needsSplit: off by one.
needsSplitLate(request) ==
  isCreateNodesRequest(request)
    /\ Len(request.nodes) > options.maxNodesPerRequest + 1

needsSplit(request) ==
  isCreateNodesRequest(request)
    /\ Len(request.nodes) > options.maxNodesPerRequest

\* Mutant of admit: the size of the node list is looked at first.
admitSplitFirst(request) ==
  IF needsSplit(request) THEN "split"
  ELSE IF quotaExceeded(request) THEN "quota"
  ELSE IF payloadTooLarge(request) THEN "payload"
  ELSE "queue"

\* The checks of enqueue, in their order.
admit(request) ==
  IF quotaExceeded(request) THEN "quota"
  ELSE IF payloadTooLarge(request) THEN "payload"
  ELSE IF needsSplit(request) THEN "split"
  ELSE "queue"

\* --------------------------------------------------------------- worker
\* Mutant of minInterval: half the interval.
minIntervalShort == 500 \div options.rateLimit

minInterval == 1000 \div options.rateLimit

Worker(q, ents, log, p, c, w, proc) ==
  [queue |-> q, entries |-> ents, dispatchLog |-> log,
   pc |-> p, cur |-> c, wakeAt |-> w, processing |-> proc]

\* History of the executor calls: when the latest one was made, and how long
\* after the one before.
Dispatched(log) ==
  IF log = dispatchLog
    THEN UNCHANGED << lastDispatchAt, dispatchGap >>
    ELSE /\ lastDispatchAt' = now
         /\ dispatchGap' = IF dispatchLog = << >> THEN -1 ELSE now - lastDispatchAt

\* Mutant of dispatch: the entry is taken from the tail (queue.pop() instead
\* of queue.shift()).
dispatchLast(q, ents, log) ==
  LET e == q[Len(q)]
  IN  Worker(SubSeq(q, 1, Len(q) - 1),
             [ents EXCEPT ![e].state = "inflight", ![e].attempts = @ + 1],
             Append(log, e),
             "exec", e, 0, TRUE)

\* Mutant of dispatch: the head is read but not removed (queue[0] instead of
\* queue.shift()).
dispatchPeek(q, ents, log) ==
  LET e == Head(q)
  IN  Worker(q,
             [ents EXCEPT ![e].state = "inflight", ![e].attempts = @ + 1],
             Append(log, e),
             "exec", e, 0, TRUE)

\* queue.shift() followed by the call of executeRequest
dispatch(q, ents, log) ==
  LET e == Head(q)
  IN  Worker(Tail(q),
             [ents EXCEPT ![e].state = "inflight", ![e].attempts = @ + 1],
             Append(log, e),
             "exec", e, 0, TRUE)

\* Mutant of loopTop: the loop ends without clearing the processing flag.
loopTopStuck(q, ents, log, last) ==
  IF q = << >>
    THEN Worker(q, ents, log, "idle", 0, 0, TRUE)
    ELSE IF now - last < minInterval
      THEN Worker(q, ents, log, "pacing", 0,
                  now + (minInterval - (now - last)), TRUE)
      ELSE dispatch(q, ents, log)

\* One pass from the head of the while loop up to the next await.
loopTop(q, ents, log, last) ==
  IF q = << >>
    THEN Worker(q, ents, log, "idle", 0, 0, FALSE)
    ELSE IF now - last < minInterval
      THEN Worker(q, ents, log, "pacing", 0,
                  now + (minInterval - (now - last)), TRUE)
      ELSE dispatch(q, ents, log)

\* Mutant of processQueue: the processing flag is not consulted.
processQueueReentrant(q, ents, log) ==
  IF q = << >>
    THEN Worker(q, ents, log, pc, cur, wakeAt, processing)
    ELSE loopTop(q, ents, log, lastRequestTime)

\* processQueue() as enqueue calls it: nothing happens while a loop is
\* running, otherwise the loop starts and runs up to its first await.
processQueue(q, ents, log) ==
  IF processing \/ q = << >>
    THEN Worker(q, ents, log, pc, cur, wakeAt, processing)
    ELSE loopTop(q, ents, log, lastRequestTime)

Apply(w) ==
  /\ queue' = w.queue
  /\ entries' = w.entries
  /\ dispatchLog' = w.dispatchLog
  /\ Dispatched(w.dispatchLog)
  /\ pc' = w.pc
  /\ cur' = w.cur
  /\ wakeAt' = w.wakeAt
  /\ processing' = w.processing

\* The Error an entry's promise is rejected with: the number its message
\* names and the error whose message it ends with.
NoError == [named |-> -1, cause |-> "none"]

\* new Error(`Request failed after ${maxRetries} retries: ${error.message}`)
enhancedError(error) == [named |-> options.maxRetries, cause |-> error]

NewEntry(c, request) ==
  [id |-> requestId + 1,
   call |-> c, request |-> request, retryCount |-> 0, attempts |-> 0,
   settled |-> 0, state |-> "queued", response |-> NoResponse,
   lastError |-> "none", rejection |-> NoError]

\* Mutant of pushEntry: the entry is pushed but processQueue() is not called.
pushEntryNoWake(c, request) ==
  Worker(Append(queue, requestId + 1),
         Append(entries, NewEntry(c, request)),
         dispatchLog, pc, cur, wakeAt, processing)

\* The promise executor of enqueue: new entry, queue.push, processQueue().
pushEntry(c, request) ==
  processQueue(Append(queue, requestId + 1),
               Append(entries, NewEntry(c, request)),
               dispatchLog)

Rejected(outcome) == outcome \in {"quota", "payload"}

\* Mutant of enqueueEffect: the entry is created and pushed before the
\* request is validated.
enqueueEffectPushFirst(c, request, outcome) ==
  [w |-> IF Rejected(outcome)
           THEN Worker(Append(queue, requestId + 1),
                       Append(entries, NewEntry(c, request)),
                       dispatchLog, pc, cur, wakeAt, processing)
           ELSE pushEntry(c, request),
   requestId |-> requestId + 1]

\* Mutant of enqueueEffect: the id counter is read but not incremented.
enqueueEffectSameId(c, request, outcome) ==
  IF Rejected(outcome)
    THEN [w |-> Worker(queue, entries, dispatchLog, pc, cur, wakeAt, processing),
          requestId |-> requestId]
    ELSE [w |-> pushEntry(c, request), requestId |-> requestId]

\* What one enqueue call does to the queue: a rejected request throws before
\* anything is touched, an admitted one gets the next id and is pushed.
enqueueEffect(c, request, outcome) ==
  IF Rejected(outcome)
    THEN [w |-> Worker(queue, entries, dispatchLog, pc, cur, wakeAt, processing),
          requestId |-> requestId]
    ELSE [w |-> pushEntry(c, request), requestId |-> requestId + 1]

NewCall(request, status, error, chunks, awaiting) ==
  [request |-> request, status |-> status, error |-> error,
   response |-> NoResponse, split |-> chunks # << >>, chunks |-> chunks,
   next |-> IF chunks = << >> THEN 0 ELSE 1,
   allResponses |-> << >>, awaiting |-> awaiting]

\* Mutant of ContinuationReady: the loop does not await the sub-request.
ContinuationReadyEarly(c) ==
  /\ calls[c].split
  /\ calls[c].status = "pending"

\* A split call whose awaited sub-request has settled: the continuation of
\* handleLargeCreateRequest is a queued microtask.
ContinuationReady(c) ==
  /\ calls[c].split
  /\ calls[c].status = "pending"
  /\ entries[calls[c].awaiting].state \in {"resolved", "rejected"}

MicrotaskPending == \E c \in DOMAIN calls : ContinuationReady(c)

\* The fields as the constructor and the field initialisers leave them.
\* No call of chunkNodes is on the stack.
NotChunking ==
  [pc |-> "idle", nodes |-> << >>, chunkSize |-> 0, i |-> 0, chunks |-> << >>]

Constructed ==
  /\ chunking = NotChunking
  /\ queue = << >>
  /\ entries = << >>
  /\ processing = FALSE
  /\ lastRequestTime = 0
  /\ totalNodeCount = 0
  /\ requestId = 0
  /\ now = StartTime
  /\ pc = "idle"
  /\ cur = 0
  /\ wakeAt = 0
  /\ calls = << >>
  /\ dispatchLog = << >>
  /\ lastDispatchAt = 0
  /\ dispatchGap = -1
  /\ completions = << >>

Init ==
  /\ options \in OptionSets
  /\ Constructed

\* ------------------------------------------------------------- actions
\* enqueue(request), called by a client.  A large createNodes request runs
\* handleLargeCreateRequest, whose first chunk goes through enqueue in the
\* same synchronous segment.
Enqueue(request) ==
  /\ Len(calls) < MaxCalls
  /\ ~MicrotaskPending
  /\ LET c == Len(calls) + 1
         outcome == admit(request)
         chunks == IF outcome = "split"
                     THEN chunkNodes(request.nodes, options.maxNodesPerRequest)
                     ELSE << >>
         first == IF outcome = "split"
                    THEN CreateRequest(chunks[1], request.len)
                    ELSE request
         sub == admit(first)
         eff == enqueueEffect(c, first, sub)
     IN  /\ requestId' = eff.requestId
         /\ Apply(eff.w)
         /\ IF Rejected(sub)
              THEN /\ calls' = Append(calls, NewCall(request, "rejected", sub, chunks, 0))
                   /\ completions' = Append(completions, c)
              ELSE /\ calls' = Append(calls, NewCall(request, "pending", "none",
                                                     chunks, requestId + 1))
                   /\ UNCHANGED completions
  /\ UNCHANGED << chunking, options, lastRequestTime, totalNodeCount, now >>

\* Mutant of awaitThrows: the rejection of a sub-request is swallowed.
awaitSwallows(e) == FALSE

\* `await this.enqueue(chunkRequest)` throws when the promise of the
\* sub-request is rejected.
awaitThrowsAtLastChunk(e) ==
  /\ entries[e].state = "rejected"
  /\ calls[entries[e].call].next = Len(calls[entries[e].call].chunks)

awaitThrows(e) == entries[e].state = "rejected"

\* The continuation of handleLargeCreateRequest after `await this.enqueue(chunk)`.
SplitContinue(c) ==
  /\ c \in DOMAIN calls
  /\ ContinuationReady(c)
  /\ LET e == calls[c].awaiting
         k == calls[c].next
     IN  IF awaitThrows(e)
           THEN \* the await throws: the caller's promise is rejected
                /\ calls' = [calls EXCEPT ![c].status = "rejected",
                                          ![c].error = "retries"]
                /\ completions' = Append(completions, c)
                /\ UNCHANGED << queue, entries, dispatchLog, lastDispatchAt,
                                dispatchGap, pc, cur, wakeAt, processing,
                                requestId >>
           ELSE LET all == Append(calls[c].allResponses, entries[e].response)
                IN  IF k = Len(calls[c].chunks)
                      THEN /\ calls' = [calls EXCEPT
                                          ![c].allResponses = all,
                                          ![c].status = "fulfilled",
                                          ![c].response = combineResponses(all)]
                           /\ completions' = Append(completions, c)
                           /\ UNCHANGED << queue, entries, dispatchLog,
                                           lastDispatchAt, dispatchGap, pc, cur,
                                           wakeAt, processing, requestId >>
                      ELSE LET chunk == CreateRequest(calls[c].chunks[k + 1],
                                                      calls[c].request.len)
                               sub == admit(chunk)
                               eff == enqueueEffect(c, chunk, sub)
                           IN  /\ requestId' = eff.requestId
                               /\ Apply(eff.w)
                               /\ IF Rejected(sub)
                                    THEN /\ calls' = [calls EXCEPT
                                                        ![c].allResponses = all,
                                                        ![c].status = "rejected",
                                                        ![c].error = sub]
                                         /\ completions' = Append(completions, c)
                                    ELSE /\ calls' = [calls EXCEPT
                                                        ![c].allResponses = all,
                                                        ![c].next = k + 1,
                                                        ![c].awaiting = requestId + 1]
                                         /\ UNCHANGED completions
  /\ UNCHANGED << chunking, options, lastRequestTime, totalNodeCount, now >>

\* The pacing sleep(waitTime) is over: shift the head and call the executor.
PacingWake ==
  /\ pc = "pacing"
  /\ now >= wakeAt
  /\ ~MicrotaskPending
  /\ Apply(dispatch(queue, entries, dispatchLog))
  /\ UNCHANGED << chunking, options, lastRequestTime, totalNodeCount, requestId, now,
                  calls, completions >>

\* Mutant of updateNodeCount: the nodes asked for are counted, not the
\* children reported.
updateNodeCountRequested(request, response) ==
  IF isCreateNodesRequest(request)
    THEN totalNodeCount + Len(request.nodes)
    ELSE totalNodeCount

\* Mutant of updateNodeCount: the children of every answer are counted,
\* whatever the request was.
updateNodeCountAlways(request, response) ==
  totalNodeCount + (IF response.hasChildren THEN Len(response.children) ELSE 0)

\* updateNodeCount(request, response)
updateNodeCount(request, response) ==
  IF isCreateNodesRequest(request)
    THEN totalNodeCount
           + (IF response.hasChildren THEN Len(response.children) ELSE 0)
    ELSE totalNodeCount

\* The promise of a caller whose request was not split is the entry's promise.
settleCall(c, status, error, response) ==
  IF calls[c].split THEN calls
  ELSE [calls EXCEPT ![c].status = status, ![c].error = error,
                     ![c].response = response]

settleLog(c) == IF calls[c].split THEN completions ELSE Append(completions, c)

\* Mutant of stampAfter: the catch branch stamps the time as well.
stampAfterAny(outcome) == now

\* lastRequestTime after the try block: `this.lastRequestTime = Date.now()`
\* stands after the awaited executeRequest, the catch branch has no
\* assignment to it.
stampAfter(outcome) ==
  IF outcome = "returned" THEN now ELSE lastRequestTime

\* executeRequest returned: commit, stamp lastRequestTime, resolve, loop on.
ExecSuccessWith(response) ==
  /\ totalNodeCount' = updateNodeCount(entries[cur].request, response)
  /\ lastRequestTime' = stampAfter("returned")
  /\ calls' = settleCall(entries[cur].call, "fulfilled", "none", response)
  /\ completions' = settleLog(entries[cur].call)
  /\ Apply(loopTop(queue,
                   [entries EXCEPT ![cur].state = "resolved",
                                   ![cur].settled = @ + 1,
                                   ![cur].response = response],
                   dispatchLog, now))
  /\ UNCHANGED << chunking, options, requestId, now >>

ExecSuccess ==
  /\ pc = "exec"
  /\ ~MicrotaskPending
  /\ \E response \in Responses(entries[cur].request) : ExecSuccessWith(response)

\* Mutant of backoffTime: the exponent is the retry count itself.
backoffTimeDoubled(retryCount) == options.baseBackoffMs * 2 ^ retryCount

backoffTime(retryCount) == options.baseBackoffMs * 2 ^ (retryCount - 1)

\* Mutant of retryDecision: the budget test is strict.
retryDecisionStrict(retryCount) ==
  IF retryCount < options.maxRetries THEN "retry" ELSE "reject"

\* What handleRequestError does with the failed entry whose retryCount has
\* just been incremented: "retry" (sleep, then unshift) or "reject".
retryDecision(retryCount) ==
  IF retryCount <= options.maxRetries THEN "retry" ELSE "reject"

\* Mutant of requeue: the entry is unshifted whatever the decision was.
requeueAlways(q, e, decision) == << e >> \o q

\* Mutant of requeue: the retried entry is pushed to the tail.
requeueAtTail(q, e, decision) ==
  IF decision = "retry" THEN Append(q, e) ELSE q

\* Mutant of requeue: the retried entry is put behind the head.
requeueSecond(q, e, decision) ==
  IF decision # "retry" THEN q
  ELSE IF q = << >> THEN << e >>
  ELSE << Head(q), e >> \o Tail(q)

\* The pending list as handleRequestError leaves it: queue.unshift(entry) on
\* the retry path, untouched on the reject path.
requeue(q, e, decision) ==
  IF decision = "retry" THEN << e >> \o q ELSE q

\* What the transport executor throws: the remote answered with an error
\* status ("Tana API error: 400 Bad Request"), or the request never got an
\* answer.
TransportErrors == {"status400", "network"}

\* Mutant of incrementRetryCount: a failure counts twice.
incrementRetryCountTwice(e) == entries[e].retryCount + 2

\* queuedRequest.retryCount++
incrementRetryCount(e) == entries[e].retryCount + 1

\* executeRequest threw: handleRequestError up to its await, or to its end.
ExecFailWith(error) ==
  /\ LET rc == incrementRetryCount(cur)
     IN  IF retryDecision(rc) = "retry"
           THEN /\ entries' = [entries EXCEPT ![cur].retryCount = rc,
                                               ![cur].state = "backoff",
                                               ![cur].lastError = error]
                /\ pc' = "backoff"
                /\ wakeAt' = now + backoffTime(rc)
                /\ UNCHANGED << queue, dispatchLog, lastDispatchAt, dispatchGap,
                                cur, processing, calls, completions >>
           ELSE /\ calls' = settleCall(entries[cur].call, "rejected", "retries",
                                       NoResponse)
                /\ completions' = settleLog(entries[cur].call)
                /\ Apply(loopTop(requeue(queue, cur, "reject"),
                                 [entries EXCEPT ![cur].retryCount = rc,
                                                 ![cur].state = "rejected",
                                                 ![cur].settled = @ + 1,
                                                 ![cur].lastError = error,
                                                 ![cur].rejection =
                                                     enhancedError(error)],
                                 dispatchLog, lastRequestTime))
  /\ lastRequestTime' = stampAfter("threw")
  /\ UNCHANGED << chunking, options, totalNodeCount, requestId, now >>

\* handleRequestError never looks at the error it is given (it only copies
\* the message into the final rejection), so where the error is not observed
\* the executor throws one kind.
ExecFail ==
  /\ pc = "exec"
  /\ ~MicrotaskPending
  /\ ExecFailWith("network")

\* The executor throws any of its errors.
ExecFailTransport ==
  /\ pc = "exec"
  /\ ~MicrotaskPending
  /\ \E error \in TransportErrors : ExecFailWith(error)

\* The backoff sleep is over: queue.unshift(entry), handleRequestError returns
\* (its error parameter is gone), back to the loop head.
BackoffWake ==
  /\ pc = "backoff"
  /\ now >= wakeAt
  /\ ~MicrotaskPending
  /\ Apply(loopTop(requeue(queue, cur, "retry"),
                   [entries EXCEPT ![cur].state = "queued",
                                   ![cur].lastError = "none"],
                   dispatchLog, lastRequestTime))
  /\ UNCHANGED << chunking, options, lastRequestTime, totalNodeCount, requestId, now,
                  calls, completions >>

\* Mutant of setNodeCount: the count is stored as given.
setNodeCountRaw(count) == count

\* setNodeCount(count)
setNodeCount(count) == IF count > 0 THEN count ELSE 0

SetNodeCount(count) ==
  /\ ~MicrotaskPending
  /\ totalNodeCount' = setNodeCount(count)
  /\ totalNodeCount' # totalNodeCount
  /\ UNCHANGED << chunking, options, queue, entries, processing, lastRequestTime,
                  requestId, now, pc, cur, wakeAt, calls, dispatchLog,
                  lastDispatchAt, dispatchGap, completions >>

\* resetNodeCount()
ResetNodeCount ==
  /\ ~MicrotaskPending
  /\ totalNodeCount # 0
  /\ totalNodeCount' = 0
  /\ UNCHANGED << chunking, options, queue, entries, processing, lastRequestTime,
                  requestId, now, pc, cur, wakeAt, calls, dispatchLog,
                  lastDispatchAt, dispatchGap, completions >>

\* The clock advances.
Tick ==
  /\ now < StartTime + MaxTicks * 500
  /\ \E d \in TimeSteps : now' = now + d
  /\ UNCHANGED << chunking, options, queue, entries, processing, lastRequestTime,
                  totalNodeCount, requestId, pc, cur, wakeAt, calls,
                  dispatchLog, lastDispatchAt, dispatchGap, completions >>

Next ==
  \/ \E r \in Requests : Enqueue(r)
  \/ \E c \in 1..MaxCalls : SplitContinue(c)
  \/ PacingWake
  \/ ExecSuccess
  \/ ExecFail
  \/ BackoffWake
  \/ \E n \in SeedCounts : SetNodeCount(n)
  \/ ResetNodeCount
  \/ Tick

Spec == Init /\ [][Next]_vars

\* The queue driven by its clients and the transport only: nobody re-seeds
\* the node count.
NextQueue ==
  \/ \E r \in Requests : Enqueue(r)
  \/ \E c \in 1..MaxCalls : SplitContinue(c)
  \/ PacingWake
  \/ ExecSuccess
  \/ ExecFail
  \/ BackoffWake
  \/ Tick

SpecQueue == Init /\ [][NextQueue]_vars

\* The queue, its clients and a transport whose errors are told apart.
NextTransport ==
  \/ \E r \in Requests : Enqueue(r)
  \/ \E c \in 1..MaxCalls : SplitContinue(c)
  \/ PacingWake
  \/ ExecSuccess
  \/ ExecFailTransport
  \/ BackoffWake
  \/ Tick

SpecTransport == Init /\ [][NextTransport]_vars

\* Time passes while the worker is asleep in sleep(): however long the
\* clients have been idle, a pending timer sees the clock move on.
Elapse ==
  /\ pc \in {"pacing", "backoff"}
  /\ now < wakeAt
  /\ \E d \in TimeSteps : now' = now + d
  /\ UNCHANGED << chunking, options, queue, entries, processing, lastRequestTime,
                  totalNodeCount, requestId, pc, cur, wakeAt, calls,
                  dispatchLog, lastDispatchAt, dispatchGap, completions >>

\* Configurations in which a create is cut into pieces of one or two nodes.
SplitOptionSets ==
  [ maxNodesPerRequest : {1, 2},
    maxPayloadSize     : {70},
    maxWorkspaceNodes  : {MaxNodes},
    rateLimit          : {1},
    maxRetries         : {0, 1},
    baseBackoffMs      : {500} ]

InitSplit ==
  /\ options \in SplitOptionSets
  /\ Constructed

\* One client sends a create, the others rename nodes meanwhile; the worker
\* always gets the time to finish.
NextSplit ==
  \/ \E k \in 1..MaxNodes : calls = << >> /\ Enqueue(CreateRequest(Iota(k), 12))
  \/ \E l \in NameLens : calls # << >> /\ Enqueue(SetNameRequest(l))
  \/ \E c \in 1..MaxCalls : SplitContinue(c)
  \/ PacingWake
  \/ ExecSuccess
  \/ ExecFail
  \/ BackoffWake
  \/ Tick
  \/ Elapse

SpecSplit == InitSplit /\ [][NextSplit]_vars

\* The queue, its clients and the transport, with a clock that keeps going
\* while a timer is pending.
\* What the clients send here: a request that is never split, and a create
\* that always is.
LiveRequests == { SetNameRequest(30), CreateRequest(Iota(MaxNodes), 12) }

NextLive ==
  \/ \E r \in LiveRequests : Enqueue(r)
  \/ \E c \in 1..MaxCalls : SplitContinue(c)
  \/ PacingWake
  \/ ExecSuccess
  \/ ExecFail
  \/ BackoffWake
  \/ Tick
  \/ Elapse

\* The event loop runs every continuation that is ready and every timer that
\* is due, time passes, and the executor's promise always settles.
Fairness ==
  /\ WF_vars(\E c \in 1..MaxCalls : SplitContinue(c))
  /\ WF_vars(PacingWake)
  /\ WF_vars(BackoffWake)
  /\ WF_vars(Elapse)
  /\ WF_vars(ExecSuccess \/ ExecFail)

SpecLive == Init /\ [][NextLive]_vars /\ Fairness

\* Configurations with a retry budget of two.
BackoffOptionSets ==
  [ maxNodesPerRequest : {2},
    maxPayloadSize     : {70},
    maxWorkspaceNodes  : {MaxNodes},
    rateLimit          : {1},
    maxRetries         : {2},
    baseBackoffMs      : {500, 1000} ]

InitBackoff ==
  /\ options \in BackoffOptionSets
  /\ Constructed

\* What the clients send here: requests that are never split.
BackoffRequests ==
  { SetNameRequest(l) : l \in NameLens } \cup { CreateRequest(Iota(1), 12) }

\* Clients whose requests are never split, a transport that fails or not,
\* and a clock that keeps going while a timer is pending.
NextBackoff ==
  \/ \E r \in BackoffRequests : Enqueue(r)
  \/ PacingWake
  \/ ExecSuccess
  \/ ExecFail
  \/ BackoffWake
  \/ Tick
  \/ Elapse

SpecBackoff == InitBackoff /\ [][NextBackoff]_vars

\* ------------------------------------------------- the loop of chunkNodes
\* Array.prototype.slice's reading of an index: a negative one counts from
\* the end, and both are clamped to the array.
sliceIndex(k, len) ==
  IF k < 0 THEN (IF len + k < 0 THEN 0 ELSE len + k)
  ELSE Min(k, len)

\* nodes.slice(start, end)
slice(nodes, start, end) ==
  LET from == sliceIndex(start, Len(nodes))
      to == sliceIndex(end, Len(nodes))
  IN  IF from >= to THEN << >> ELSE SubSeq(nodes, from + 1, to)

\* How many iterations of the loop are followed.
MaxIterations == 10

\* Configurations whose maxNodesPerRequest is any integer: the constructor
\* copies whatever it is given.
ChunkOptionSets ==
  [ maxNodesPerRequest : {-2, -1, 0, 1, 2},
    maxPayloadSize     : {70},
    maxWorkspaceNodes  : {MaxNodes},
    rateLimit          : {1},
    maxRetries         : {0},
    baseBackoffMs      : {500} ]

InitChunk ==
  /\ options \in ChunkOptionSets
  /\ Constructed

\* enqueue found nodes.length > maxNodesPerRequest for a create that passed
\* the quota and the length test, and handleLargeCreateRequest calls
\* chunkNodes(request.nodes, maxNodesPerRequest): `chunks = []`, `i = 0`.
ChunkCall(request) ==
  /\ chunking.pc \in {"idle", "returned"}
  /\ admit(request) = "split"
  /\ chunking' = [pc |-> "loop", nodes |-> request.nodes,
                  chunkSize |-> options.maxNodesPerRequest,
                  i |-> 0, chunks |-> << >>]
  /\ UNCHANGED << options, queue, entries, processing, lastRequestTime,
                  totalNodeCount, requestId, now, pc, cur, wakeAt, calls,
                  dispatchLog, lastDispatchAt, dispatchGap, completions >>

\* One iteration: i < nodes.length, push the slice, i += chunkSize.
ChunkStep ==
  /\ chunking.pc = "loop"
  /\ chunking.i < Len(chunking.nodes)
  /\ Len(chunking.chunks) < MaxIterations
  /\ chunking' = [chunking EXCEPT
                    !.chunks = Append(@, slice(chunking.nodes, chunking.i,
                                               chunking.i + chunking.chunkSize)),
                    !.i = @ + chunking.chunkSize]
  /\ UNCHANGED << options, queue, entries, processing, lastRequestTime,
                  totalNodeCount, requestId, now, pc, cur, wakeAt, calls,
                  dispatchLog, lastDispatchAt, dispatchGap, completions >>

\* The loop condition is false: return chunks.
ChunkReturn ==
  /\ chunking.pc = "loop"
  /\ chunking.i >= Len(chunking.nodes)
  /\ chunking' = [chunking EXCEPT !.pc = "returned"]
  /\ UNCHANGED << options, queue, entries, processing, lastRequestTime,
                  totalNodeCount, requestId, now, pc, cur, wakeAt, calls,
                  dispatchLog, lastDispatchAt, dispatchGap, completions >>

NextChunk ==
  \/ \E r \in Requests : ChunkCall(r)
  \/ ChunkStep
  \/ ChunkReturn

SpecChunk == InitChunk /\ [][NextChunk]_vars

TypeOK ==
  /\ options \in OptionSets
  /\ pc \in {"idle", "pacing", "exec", "backoff"}
  /\ processing \in BOOLEAN
  /\ requestId = Len(entries)

\* ------------------------------------------------------------ properties
Settled(e) == entries[e].settled >= 1
Started(e) == entries[e].attempts >= 1
InQueue(e) == \E i \in DOMAIN queue : queue[i] = e
CallOf(i) == entries[dispatchLog[i]].call
Admitted(c) == \E e \in DOMAIN entries : entries[e].call = c

\* The entries created for call c, oldest first.
SubEntries(c) ==
  SelectSeq(Iota(Len(entries)), LAMBDA e : entries[e].call = c)

Ceil(a, b) == (a + b - 1) \div b

\* What the executor answered to the sub-requests of call c that succeeded.
RECURSIVE succeededFrom(_)
succeededFrom(subs) ==
  IF subs = << >> THEN << >>
  ELSE (IF entries[Head(subs)].state = "resolved"
          THEN << entries[Head(subs)].response >> ELSE << >>)
         \o succeededFrom(Tail(subs))

SucceededResponses(c) == succeededFrom(SubEntries(c))

\* C1: the node count never exceeds the workspace ceiling, also when several
\* creates are admitted while earlier admitted creates are not yet committed.
QuotaNeverExceeded == totalNodeCount <= options.maxWorkspaceNodes

\* C2: every entry's promise is resolved or rejected at most once, and a
\* settled entry is neither in the pending list nor held by the worker, and
\* it stays as it is for ever.
NoDuplicateResolution ==
  /\ [](\A e \in DOMAIN entries :
          /\ entries[e].settled <= 1
          /\ Settled(e) => ~InQueue(e) /\ cur # e)
  /\ [][\A e \in DOMAIN entries : Settled(e) => entries'[e] = entries[e]]_vars

\* C2 witness: an entry was rejected after a retry, another was resolved.
NoDuplicateResolutionWitness ==
  /\ \E e \in DOMAIN entries :
       entries[e].state = "rejected" /\ entries[e].attempts >= 2 /\ Settled(e)
  /\ \E e \in DOMAIN entries : entries[e].state = "resolved" /\ Settled(e)

\* C3: two consecutive calls of the transport executor are at least
\* 1000/rateLimit milliseconds apart.
RateCeiling == Len(dispatchLog) >= 2 => dispatchGap >= minInterval

\* C4: an entry is handed to the executor at most maxRetries + 1 times, and
\* an entry rejected by the worker has had exactly maxRetries + 1 attempts.
RetryBound ==
  \A e \in DOMAIN entries :
    /\ entries[e].attempts <= options.maxRetries + 1
    /\ entries[e].state = "rejected"
         => entries[e].attempts = options.maxRetries + 1

\* C4 witness: with maxRetries = 1 an entry was rejected after 2 attempts.
RetryBoundWitness ==
  /\ options.maxRetries = 1
  /\ \E e \in DOMAIN entries :
       entries[e].state = "rejected" /\ entries[e].attempts = 2

\* C5: a request admitted earlier is never overtaken: all dispatches made for
\* it come before the first dispatch of a request admitted later, and its
\* promise settles first.
NoOvertaking ==
  /\ \A i, j \in DOMAIN dispatchLog : i < j => CallOf(i) <= CallOf(j)
  /\ \A i, j \in DOMAIN completions :
       (i < j /\ Admitted(completions[i]) /\ Admitted(completions[j]))
         => completions[i] < completions[j]

\* C6: an entry whose dispatch has begun and whose promise is not settled is
\* held by the worker or is the head of the pending list with the worker
\* holding nothing, so nothing else is dispatched before it completes.
RetryOrdering ==
  \A e \in DOMAIN entries :
    (Started(e) /\ ~Settled(e))
      => \/ cur = e
         \/ cur = 0 /\ queue # << >> /\ Head(queue) = e

\* C6 witness: a retried entry is in flight again while an entry that
\* arrived after its first dispatch is still waiting.
RetryOrderingWitness ==
  /\ pc = "exec"
  /\ entries[cur].retryCount >= 1
  /\ entries[cur].attempts >= 2
  /\ \E i \in DOMAIN queue : queue[i] > cur /\ entries[queue[i]].attempts = 0

\* C7: an enqueue call of a create request is rejected for quota exactly when totalNodeCount + n
\* exceeds the ceiling at the call, and then the caller's promise is rejected
\* in the same step and no entry is created for the request.
AdmissionDecision ==
  [][ /\ \A r \in Requests :
           (Enqueue(r) /\ r.kind = "create") =>
             LET c == Len(calls) + 1
                 denied == calls'[c].status = "rejected" /\ calls'[c].error = "quota"
                 over == totalNodeCount + Len(r.nodes) > options.maxWorkspaceNodes
             IN  /\ denied <=> over
                 /\ denied => /\ completions' = Append(completions, c)
                              /\ entries' = entries
                              /\ queue' = queue
      /\ \A c \in DOMAIN calls :
           (SplitContinue(c) /\ entries[calls[c].awaiting].state = "resolved"
              /\ calls[c].next < Len(calls[c].chunks)) =>
             LET denied == calls'[c].status = "rejected" /\ calls'[c].error = "quota"
                 over == totalNodeCount + Len(calls[c].chunks[calls[c].next + 1])
                           > options.maxWorkspaceNodes
             IN  /\ denied <=> over
                 /\ denied => entries' = entries /\ queue' = queue
    ]_vars

\* C7 witness: with 2 of 3 nodes used a create of 2 nodes was rejected for
\* quota at once, while the entry of a create of 1 node, admitted with the
\* same count and filling the workspace exactly, was not settled yet.
AdmissionDecisionWitness ==
  /\ totalNodeCount = 2
  /\ Len(calls) = 2
  /\ calls[1].request.kind = "create"
  /\ Len(calls[1].request.nodes) = 1
  /\ Admitted(1)
  /\ ~Settled(1)
  /\ calls[2].status = "rejected"
  /\ calls[2].error = "quota"
  /\ Len(calls[2].request.nodes) = 2

\* C8: an enqueue call that rejects leaves the pending list, the node count,
\* the id counter, lastRequestTime, the processing flag and the entries
\* untouched, so the same request is denied again in the state it leaves.
RejectionFrame ==
  [][ /\ \A r \in Requests :
           (Enqueue(r) /\ calls'[Len(calls) + 1].status = "rejected") =>
             /\ UNCHANGED << queue, totalNodeCount, requestId, lastRequestTime,
                             processing, entries, pc, cur >>
             /\ Rejected(admit(r))'
      /\ \A c \in DOMAIN calls :
           (SplitContinue(c) /\ calls'[c].status = "rejected") =>
             UNCHANGED << queue, totalNodeCount, requestId, lastRequestTime,
                          processing, entries, pc, cur >>
    ]_vars

\* C8 witness: a request was denied at admission while the worker was busy
\* with the only admitted entry.
RejectionFrameWitness ==
  /\ Len(calls) >= 2
  /\ Admitted(1)
  /\ calls[2].status = "rejected"
  /\ calls[2].error \in {"quota", "payload"}
  /\ requestId = 1
  /\ processing
  /\ pc = "exec"

\* C9: every request handed to the executor has at most maxNodesPerRequest
\* nodes and a serialized length of at most maxPayloadSize.
LimitCompliantDispatch ==
  \A i \in DOMAIN dispatchLog :
    LET r == entries[dispatchLog[i]].request
    IN  /\ Len(r.nodes) <= options.maxNodesPerRequest
        /\ payloadSize(r) <= options.maxPayloadSize

\* C9 witness: both chunks of a create with more nodes than one request may
\* carry were dispatched.
LimitCompliantDispatchWitness ==
  \E i, j \in DOMAIN dispatchLog :
    /\ i < j
    /\ CallOf(i) = CallOf(j)
    /\ dispatchLog[i] # dispatchLog[j]
    /\ Len(calls[CallOf(i)].request.nodes) > options.maxNodesPerRequest

AllSubResponsesComplete(c) ==
  \A e \in DOMAIN entries :
    entries[e].call = c =>
      /\ entries[e].state = "resolved"
      /\ entries[e].response.hasChildren
      /\ entries[e].response.children = entries[e].request.nodes

\* C10: when every sub-request of a split create succeeds with one result per
\* node spec, the combined response lists the K results in the order of the
\* node specs of the original request.
SplitCombineIdentity ==
  \A c \in DOMAIN calls :
    (calls[c].split /\ calls[c].status = "fulfilled" /\ AllSubResponsesComplete(c))
      => /\ Len(calls[c].response.children) = Len(calls[c].request.nodes)
         /\ \A i \in DOMAIN calls[c].request.nodes :
              calls[c].response.children[i] = calls[c].request.nodes[i]

\* C10 witness: a split create of at least 3 nodes was fulfilled from
\* complete sub-responses.
SplitCombineIdentityWitness ==
  \E c \in DOMAIN calls :
    /\ calls[c].split
    /\ calls[c].status = "fulfilled"
    /\ AllSubResponsesComplete(c)
    /\ Len(calls[c].request.nodes) >= 3
    /\ Len(calls[c].allResponses) >= 2

\* C11: a create of K node specs that is split with maxNodesPerRequest = M
\* is cut into ceil(K/M) chunks, all of M node specs but the last, which has
\* the remaining K - M*(ceil(K/M)-1); chunk i holds the node specs
\* (i-1)*M+1 .. of the original, in order.  The sub-requests are created and
\* dispatched in chunk order, sub-request i carrying chunk i, never more than
\* ceil(K/M) of them, and all ceil(K/M) were dispatched once the caller's
\* promise is fulfilled.
SplitShape ==
  \A c \in DOMAIN calls :
    calls[c].split =>
      LET nodes == calls[c].request.nodes
          K == Len(nodes)
          M == options.maxNodesPerRequest
          n == Ceil(K, M)
          chunks == calls[c].chunks
          subs == SubEntries(c)
      IN  /\ Len(chunks) = n
          /\ \A i \in 1..(n - 1) : Len(chunks[i]) = M
          /\ Len(chunks[n]) = K - M * (n - 1)
          /\ \A i \in 1..n : \A j \in 1..Len(chunks[i]) :
                chunks[i][j] = nodes[(i - 1) * M + j]
          /\ Len(subs) <= n
          /\ \A i \in DOMAIN subs :
                entries[subs[i]].request = CreateRequest(chunks[i], calls[c].request.len)
          /\ \A i, j \in DOMAIN dispatchLog :
                (i < j /\ CallOf(i) = c /\ CallOf(j) = c)
                  => dispatchLog[i] <= dispatchLog[j]
          /\ calls[c].status = "fulfilled"
                => /\ Len(subs) = n
                   /\ \A i \in DOMAIN subs : Started(subs[i])

\* C11 witness: a create of 3 node specs was cut into 3 chunks with M = 1,
\* all three were dispatched and the caller's promise is fulfilled.
SplitShapeWitness ==
  \E c \in DOMAIN calls :
    /\ calls[c].split
    /\ calls[c].status = "fulfilled"
    /\ Len(calls[c].chunks) >= 3
    /\ Len(calls[c].request.nodes) >= 3

\* C12: an entry whose execution failed because the remote rejected the
\* request as invalid (an HTTP 4xx) is rejected at once: it was handed to the
\* executor exactly once, its retry counter is untouched and it is not put to
\* sleep for a backoff.
NonRetryableFailsAtOnce ==
  \A e \in DOMAIN entries :
    entries[e].lastError = "status400"
      => /\ entries[e].state = "rejected"
         /\ entries[e].attempts = 1
         /\ entries[e].retryCount = 0

\* C13: when a split create is rejected after some of its sub-requests
\* succeeded, what the caller receives carries the results of the sub-requests
\* that succeeded; it is not a bare failure.
PartialFailureReported ==
  \A c \in DOMAIN calls :
    (calls[c].split /\ calls[c].status = "rejected"
       /\ SucceededResponses(c) # << >>)
      => calls[c].response = combineResponses(SucceededResponses(c))

\* C14: when the second of the three sub-requests of a split create has
\* failed for good, the caller's promise is not settled before the third
\* sub-request was handed to the executor, and what the caller receives
\* carries the results of the sub-requests that succeeded.
SplitContinuesPastFailure ==
  \A c \in DOMAIN calls :
    LET subs == SubEntries(c)
    IN  (/\ calls[c].split
         /\ Len(calls[c].chunks) = 3
         /\ calls[c].status # "pending"
         /\ Len(subs) >= 2
         /\ entries[subs[1]].state = "resolved"
         /\ entries[subs[2]].state = "rejected")
          => /\ Len(subs) = 3
             /\ Started(subs[3])
             /\ calls[c].response = combineResponses(SucceededResponses(c))

\* C15: the promise of a split create is fulfilled only when all its
\* sub-requests were created and resolved; once a sub-request is rejected,
\* by the worker or at its admission, the caller's promise is rejected in
\* the continuation that sees it, and a rejected promise stays rejected.
SplitSuccessNeedsAll ==
  /\ [](\A c \in DOMAIN calls :
          calls[c].split =>
            LET subs == SubEntries(c)
            IN  /\ calls[c].status = "fulfilled"
                      => /\ Len(subs) = Len(calls[c].chunks)
                         /\ \A i \in DOMAIN subs :
                              entries[subs[i]].state = "resolved"
                /\ (\E i \in DOMAIN subs : entries[subs[i]].state = "rejected")
                      => calls[c].status \in {"pending", "rejected"})
  /\ [][\A c \in DOMAIN calls :
          /\ (SplitContinue(c) /\ entries[calls[c].awaiting].state = "rejected")
                => calls'[c].status = "rejected"
          /\ (SplitContinue(c) /\ entries[calls[c].awaiting].state = "resolved"
                /\ calls[c].next < Len(calls[c].chunks)
                /\ Rejected(admit(CreateRequest(calls[c].chunks[calls[c].next + 1],
                                                calls[c].request.len))))
                => calls'[c].status = "rejected"
          /\ (calls[c].split /\ calls[c].status = "rejected")
                => calls'[c].status = "rejected"
     ]_vars

\* C15 witness: a split create was rejected because a later sub-request ran
\* out of retries after an earlier one had succeeded.
SplitSuccessNeedsAllWitness ==
  \E c \in DOMAIN calls :
    /\ calls[c].split
    /\ calls[c].status = "rejected"
    /\ calls[c].error = "retries"
    /\ SucceededResponses(c) # << >>

InFlight == { e \in DOMAIN entries : entries[e].state = "inflight" }

\* C17: at most one execution is in flight, and it is the one the worker
\* waits for; the processing flag is set exactly while the loop runs; and an
\* enqueue call, or the continuation of a split create, that arrives while
\* the loop is suspended (pacing wait, executor call, backoff) only appends
\* to the pending list: it starts no second loop and no execution.
SingleWorker ==
  /\ [](/\ Cardinality(InFlight) <= 1
        /\ \A e \in InFlight : pc = "exec" /\ cur = e
        /\ pc = "exec" => cur \in InFlight
        /\ processing <=> pc # "idle")
  /\ [][processing =>
          /\ \A r \in Requests :
                Enqueue(r) => /\ UNCHANGED << pc, cur, wakeAt, processing,
                                              dispatchLog >>
                              /\ \A e \in DOMAIN entries : entries'[e] = entries[e]
          /\ \A c \in DOMAIN calls :
                SplitContinue(c) => /\ UNCHANGED << pc, cur, wakeAt, processing,
                                                    dispatchLog >>
                                    /\ \A e \in DOMAIN entries :
                                         entries'[e] = entries[e]
     ]_vars

\* C17 witness: the worker holds an entry during a backoff after the only
\* executor call so far, and an entry that arrived meanwhile waits, untried,
\* in the pending list.
SingleWorkerWitness ==
  /\ pc = "backoff"
  /\ processing
  /\ Len(dispatchLog) = 1
  /\ queue # << >>
  /\ \A i \in DOMAIN queue : queue[i] > cur /\ entries[queue[i]].attempts = 0

\* C18: when every execution returns or throws in the end, the queue comes
\* again and again to a state in which every entry pushed so far has been
\* handed to the executor and resolved or rejected, and every caller's
\* promise is settled.  Entries are never removed from the record and a
\* settled entry stays settled, so every entry is completed in the end,
\* whatever became of the entries before it (also when one was rejected).
EveryEntrySettles ==
  []<>(/\ \A e \in DOMAIN entries : Started(e) /\ Settled(e)
       /\ \A c \in DOMAIN calls : calls[c].status # "pending")

\* C18 witness: an entry was rejected after its retries, and an entry that
\* was pushed behind it was dispatched afterwards and resolved.
EveryEntrySettlesWitness ==
  \E e, f \in DOMAIN entries :
    /\ e < f
    /\ entries[e].state = "rejected"
    /\ entries[e].attempts >= 2
    /\ entries[f].state = "resolved"
    /\ \E i, j \in DOMAIN dispatchLog :
         i < j /\ dispatchLog[i] = e /\ dispatchLog[j] = f

\* C19: a setName request is never rejected for quota, whatever the node
\* count is.
QuotaForCreatesOnly ==
  \A c \in DOMAIN calls :
    calls[c].request.kind = "setName"
      => ~(calls[c].status = "rejected" /\ calls[c].error = "quota")

\* C20: when the executor call before the latest one succeeded (it was made
\* for another entry, which is resolved), the latest one was made at least
\* 1000/rateLimit milliseconds after it.
PacingAfterSuccess ==
  (/\ Len(dispatchLog) >= 2
   /\ dispatchLog[Len(dispatchLog) - 1] # dispatchLog[Len(dispatchLog)]
   /\ entries[dispatchLog[Len(dispatchLog) - 1]].state = "resolved")
    => dispatchGap >= 1000 \div options.rateLimit

\* C20 witness: two creates of one node each were enqueued, the first was
\* dispatched once and succeeded, and with rateLimit = 1 the second was
\* handed to the executor 1000 ms after the first.
PacingAfterSuccessWitness ==
  /\ options.rateLimit = 1
  /\ Len(calls) = 2
  /\ \A c \in DOMAIN calls :
       calls[c].request.kind = "create" /\ Len(calls[c].request.nodes) = 1
  /\ dispatchLog = << 1, 2 >>
  /\ entries[1].state = "resolved"
  /\ dispatchGap = 1000

\* C21: after the k-th failure of an entry (k = 1..maxRetries) the worker
\* sleeps until baseBackoffMs * 2^(k-1) milliseconds have passed and only
\* then goes on, with that same entry: the timer is set to the time of the
\* failure plus that delay, the loop leaves the backoff no earlier, and two
\* successive executor calls for one entry, the k-th and the (k+1)-th, are
\* at least baseBackoffMs * 2^(k-1) apart.
BackoffSchedule ==
  /\ [](pc = "backoff" =>
          /\ entries[cur].retryCount \in 1..options.maxRetries
          /\ entries[cur].attempts = entries[cur].retryCount
          /\ ~InQueue(cur))
  /\ []((/\ Len(dispatchLog) >= 2
         /\ dispatchLog[Len(dispatchLog) - 1] = dispatchLog[Len(dispatchLog)])
          => dispatchGap >= options.baseBackoffMs
                              * 2 ^ (entries[dispatchLog[Len(dispatchLog)]].attempts - 2))
  /\ [][/\ (pc = "exec" /\ pc' = "backoff") =>
               /\ cur' = cur
               /\ entries'[cur].retryCount = entries[cur].retryCount + 1
               /\ wakeAt' = now + options.baseBackoffMs
                                    * 2 ^ (entries'[cur].retryCount - 1)
        /\ (pc = "backoff" /\ pc' # "backoff") =>
               /\ now >= wakeAt
               /\ \/ pc' = "exec" /\ cur' = cur
                  \/ pc' = "pacing" /\ queue' # << >> /\ Head(queue') = cur
     ]_vars

\* C21 witness: with maxRetries = 2 and baseBackoffMs = 1000 the executor
\* failed twice and then succeeded: the entry is resolved after exactly three
\* attempts, made at 0, 1000 and 3000 ms after the first.
BackoffScheduleWitness ==
  /\ options.maxRetries = 2
  /\ options.baseBackoffMs = 1000
  /\ dispatchLog = << 1, 1, 1 >>
  /\ entries[1].state = "resolved"
  /\ entries[1].attempts = 3
  /\ entries[1].retryCount = 2
  /\ dispatchGap = 2000
  /\ lastDispatchAt = StartTime + 3000

\* C22: the error an entry is rejected with after its retries names the
\* number of attempts that were made, maxRetries + 1, and wraps the error
\* thrown by the last attempt.
RetriesExhaustedError ==
  \A e \in DOMAIN entries :
    entries[e].state = "rejected"
      => /\ entries[e].rejection.named = entries[e].attempts
         /\ entries[e].rejection.named = options.maxRetries + 1
         /\ entries[e].rejection.cause = entries[e].lastError

\* An execution returned in this step.
Returned == pc = "exec" /\ entries'[cur].state = "resolved"

\* C23: totalNodeCount changes only when the execution of a create returns,
\* by the number of children in the answer (none when there is no children
\* list), or by resetNodeCount (to 0) or setNodeCount (to the value given,
\* at least 0), which touch nothing else.  The return of a setName
\* execution, failed executions, backoffs, retries, admissions and
\* rejections leave it as it is.
QuotaMutationPaths ==
  [][/\ Returned =>
          totalNodeCount' =
            totalNodeCount
              + (IF entries[cur].request.kind = "create"
                      /\ entries'[cur].response.hasChildren
                   THEN Len(entries'[cur].response.children) ELSE 0)
     /\ (~Returned /\ totalNodeCount' # totalNodeCount) =>
          /\ \/ totalNodeCount' = 0
             \/ \E n \in SeedCounts : n >= 0 /\ totalNodeCount' = n
          /\ UNCHANGED << chunking, options, queue, entries, processing, lastRequestTime,
                          requestId, now, pc, cur, wakeAt, calls, dispatchLog,
                          completions >>
    ]_vars

\* C23 witness: a create of two nodes was answered with one child and
\* counted as one, and then the execution of a setName request failed and
\* the request was rejected, which changed nothing.
QuotaMutationPathsWitness ==
  /\ Len(entries) = 2
  /\ entries[1].request.kind = "create"
  /\ Len(entries[1].request.nodes) = 2
  /\ entries[1].state = "resolved"
  /\ Len(entries[1].response.children) = 1
  /\ entries[2].request.kind = "setName"
  /\ entries[2].state = "rejected"
  /\ entries[2].attempts = 1
  /\ totalNodeCount = 1

\* The children reported for the sub-requests of call c that succeeded.
Confirmed(c) == Len(combineFrom(SucceededResponses(c), << >>))

\* C24: when a split create has been rejected, the node count is what it
\* was before the split (0 here, the create being the only one) plus the
\* children reported for its sub-requests that succeeded: nothing is taken
\* back, neither when the rejection is delivered nor later, and the executor
\* is not called again for that create.
NoRollback ==
  /\ [](\A c \in DOMAIN calls :
          (calls[c].split /\ calls[c].status = "rejected")
            => totalNodeCount = Confirmed(c))
  /\ [][\A c \in DOMAIN calls :
          (calls[c].split /\ calls'[c].status = "rejected")
            => /\ totalNodeCount' = totalNodeCount
               /\ dispatchLog' # dispatchLog
                    => entries'[dispatchLog'[Len(dispatchLog')]].call # c
     ]_vars

\* C24 witness: the third sub-request of a create of three nodes ran out of
\* retries after the first two had succeeded with one child each; the create
\* is rejected and the count is 2.
NoRollbackWitness ==
  \E c \in DOMAIN calls :
    /\ calls[c].split
    /\ calls[c].status = "rejected"
    /\ calls[c].error = "retries"
    /\ Len(SubEntries(c)) = 3
    /\ entries[SubEntries(c)[3]].state = "rejected"
    /\ Len(SucceededResponses(c)) = 2
    /\ totalNodeCount = 2

Unsplit(e) == ~calls[entries[e].call].split

\* C25: among the admitted requests that are not split, the executor is
\* first called for them in the order of their admission, a later one is not
\* tried before the earlier one is settled, and their promises are settled
\* in the order of their admission.
UnsplitFifo ==
  /\ \A e, f \in DOMAIN entries :
       (e < f /\ Unsplit(e) /\ Unsplit(f) /\ Started(f))
         => Started(e) /\ Settled(e)
  /\ \A i, j \in DOMAIN dispatchLog :
       (i < j /\ Unsplit(dispatchLog[i]) /\ Unsplit(dispatchLog[j]))
         => dispatchLog[i] <= dispatchLog[j]
  /\ \A i, j \in DOMAIN completions :
       (/\ i < j
        /\ Admitted(completions[i]) /\ ~calls[completions[i]].split
        /\ Admitted(completions[j]) /\ ~calls[completions[j]].split)
         => completions[i] < completions[j]

\* C25 witness: two requests that are not split were admitted; the first was
\* tried twice, with the second waiting behind it, and both are settled, the
\* first one first.
UnsplitFifoWitness ==
  /\ Len(calls) = 2
  /\ ~calls[1].split
  /\ ~calls[2].split
  /\ dispatchLog = << 1, 1, 2 >>
  /\ completions = << 1, 2 >>
  /\ Settled(2)

\* C26: the entries carry the ids 1, 2, 3, ... in the order in which they
\* were pushed, so every id is greater than all ids given before and no two
\* entries share one; the pending list holds no id twice; and an entry keeps
\* its id, its request and its promise for ever, also when it is retried.
SequenceIds ==
  /\ [](/\ \A e \in DOMAIN entries : entries[e].id = e
        /\ requestId = Len(entries)
        /\ \A i, j \in DOMAIN queue : i < j => queue[i] < queue[j]
        /\ \A i \in DOMAIN queue : queue[i] \in DOMAIN entries)
  /\ [][/\ \A e \in DOMAIN entries :
             /\ e \in DOMAIN entries'
             /\ entries'[e].id = entries[e].id
             /\ entries'[e].request = entries[e].request
             /\ entries'[e].call = entries[e].call
         /\ Len(entries') > Len(entries)
             => /\ Len(entries') = Len(entries) + 1
                /\ entries'[Len(entries')].id = requestId + 1
                /\ requestId' = requestId + 1
     ]_vars

\* C26 witness: the entry with id 1 is in flight for the second time, with
\* the entry with id 2, pushed meanwhile, behind it.
SequenceIdsWitness ==
  /\ pc = "exec"
  /\ cur = 1
  /\ entries[1].id = 1
  /\ entries[1].attempts = 2
  /\ queue = << 2 >>
  /\ entries[2].id = 2
  /\ requestId = 2

\* C27: while the pending list is not empty, or an execution is in flight,
\* or an entry sits out its backoff, the worker is running (processing is
\* set and the loop is at one of its awaits); the worker is idle only with an
\* empty list; and a step that pushes an entry while the worker is idle
\* leaves the worker running.
NoLostWakeup ==
  /\ []((queue # << >> \/ InFlight # {}
           \/ \E e \in DOMAIN entries : entries[e].state \in {"queued", "backoff"})
          => processing /\ pc \in {"pacing", "exec", "backoff"})
  /\ [](~processing => queue = << >> /\ pc = "idle" /\ cur = 0)
  /\ [][(~processing /\ Len(entries') > Len(entries))
          => /\ processing'
             /\ \/ pc' = "exec" /\ cur' = Len(entries')
                \/ pc' = "pacing" /\ queue' = << Len(entries') >>
     ]_vars

\* C27 witness: the first sub-request of the only request so far was
\* resolved, which left the list empty and the worker idle; the push of the
\* second sub-request started the worker again, which now waits for its
\* pacing interval with that entry in the list.
NoLostWakeupWitness ==
  /\ Len(calls) = 1
  /\ calls[1].split
  /\ Len(entries) = 2
  /\ entries[1].state = "resolved"
  /\ queue = << 2 >>
  /\ processing
  /\ pc = "pacing"

\* C28: an enqueue call of a create with more than maxNodesPerRequest nodes
\* whose nodes would take the count over the ceiling, or whose serialized
\* length is over maxPayloadSize, rejects without creating an entry, pushing
\* anything or calling the executor; and no entry is ever created, and no
\* execution made, for a request rejected that way.
OversizedRejectedWhole ==
  /\ [](\A c \in DOMAIN calls :
          (/\ calls[c].request.kind = "create"
           /\ Len(calls[c].request.nodes) > options.maxNodesPerRequest
           /\ calls[c].status = "rejected"
           /\ ~calls[c].split)
            => /\ calls[c].error \in {"quota", "payload"}
               /\ SubEntries(c) = << >>
               /\ \A i \in DOMAIN dispatchLog : CallOf(i) # c)
  /\ [][\A r \in Requests :
          (/\ Enqueue(r)
           /\ r.kind = "create"
           /\ Len(r.nodes) > options.maxNodesPerRequest
           /\ \/ totalNodeCount + Len(r.nodes) > options.maxWorkspaceNodes
              \/ payloadSize(r) > options.maxPayloadSize)
            => /\ calls'[Len(calls) + 1].status = "rejected"
               /\ ~calls'[Len(calls) + 1].split
               /\ UNCHANGED << entries, queue, dispatchLog, pc, cur, requestId >>
     ]_vars

\* C28 witness: two creates of more nodes than one request may carry were
\* rejected, one for its serialized length and one for the quota, and
\* nothing was ever pushed or executed.
OversizedRejectedWholeWitness ==
  /\ Len(calls) = 2
  /\ \A c \in DOMAIN calls :
       /\ calls[c].request.kind = "create"
       /\ Len(calls[c].request.nodes) > options.maxNodesPerRequest
       /\ calls[c].status = "rejected"
  /\ \E c \in DOMAIN calls : calls[c].error = "payload"
  /\ \E c \in DOMAIN calls : calls[c].error = "quota"
  /\ entries = << >>
  /\ dispatchLog = << >>

\* C29: the sub-requests of a split create are pushed one at a time: when
\* one is pushed all the earlier ones are resolved, so all sub-requests but
\* the latest are resolved, at most one is unsettled, and the executor is
\* called for them in chunk order.
SequentialSplit ==
  /\ [](\A c \in DOMAIN calls :
          calls[c].split =>
            LET subs == SubEntries(c)
            IN  /\ \A i \in 1..(Len(subs) - 1) :
                     entries[subs[i]].state = "resolved"
                /\ Cardinality({ i \in DOMAIN subs : ~Settled(subs[i]) }) <= 1
                /\ \A i \in DOMAIN subs :
                     entries[subs[i]].request.nodes = calls[c].chunks[i]
                /\ \A i, j \in DOMAIN dispatchLog :
                     (i < j /\ CallOf(i) = c /\ CallOf(j) = c)
                       => dispatchLog[i] <= dispatchLog[j])
  /\ [][Len(entries') > Len(entries) =>
          LET c == entries'[Len(entries')].call
          IN  \A e \in DOMAIN entries :
                entries[e].call = c => entries[e].state = "resolved"
     ]_vars

\* C29 witness: the third sub-request of a create of three nodes is in
\* flight, the first two are resolved.
SequentialSplitWitness ==
  \E c \in DOMAIN calls :
    /\ calls[c].split
    /\ Len(SubEntries(c)) = 3
    /\ entries[SubEntries(c)[1]].state = "resolved"
    /\ entries[SubEntries(c)[2]].state = "resolved"
    /\ entries[SubEntries(c)[3]].state = "inflight"

\* C30: a rejected sub-request of a split create is the last one that create
\* ever pushed; from the rejection on, whether by the worker after the
\* retries or by the quota or payload test of the sub-request's own enqueue,
\* the create has no further entry and the executor is not called for it
\* again.
SplitAborts ==
  /\ [](\A c \in DOMAIN calls :
          calls[c].split =>
            LET subs == SubEntries(c)
            IN  /\ \A i \in DOMAIN subs :
                     entries[subs[i]].state = "rejected" => i = Len(subs)
                /\ (calls[c].status = "rejected" /\ subs # << >>)
                     => Settled(subs[Len(subs)]))
  /\ [][\A c \in DOMAIN calls :
          (/\ calls[c].split
           /\ \/ calls[c].status = "rejected"
              \/ \E e \in DOMAIN entries :
                    entries[e].call = c /\ entries[e].state = "rejected")
            => /\ { e \in DOMAIN entries' : entries'[e].call = c }
                    = { e \in DOMAIN entries : entries[e].call = c }
               /\ \A i \in DOMAIN dispatchLog' :
                    entries'[dispatchLog'[i]].call = c => i \in DOMAIN dispatchLog
     ]_vars

\* C30 witness: both routes happened. One create lost its first
\* sub-request to the retries and was rejected with that entry only;
\* another had its second sub-request turned away by the quota test of the
\* sub-request's own enqueue after the first one had succeeded.
SplitAbortsWitness ==
  \E c, d \in DOMAIN calls :
    /\ calls[c].split
    /\ calls[c].status = "rejected"
    /\ calls[c].error = "retries"
    /\ Len(SubEntries(c)) = 1
    /\ Len(calls[c].chunks) = 2
    /\ calls[d].split
    /\ calls[d].status = "rejected"
    /\ calls[d].error = "quota"
    /\ Len(SubEntries(d)) = 1
    /\ Len(calls[d].chunks) = 2
    /\ entries[SubEntries(d)[1]].state = "resolved"

\* C31: lastRequestTime changes only in the step in which the executor's
\* answer is received, and then to the time of that step; a failed
\* dispatch, the end of a backoff, a terminal rejection and the end of a
\* pacing sleep leave it as it was; it never decreases and is never ahead
\* of the clock.
PacingReference ==
  /\ [](0 <= lastRequestTime /\ lastRequestTime <= now)
  /\ [][/\ lastRequestTime' >= lastRequestTime
        /\ (lastRequestTime' # lastRequestTime) => Returned
        /\ Returned => lastRequestTime' = now
        /\ (ExecFail \/ BackoffWake \/ PacingWake)
              => lastRequestTime' = lastRequestTime
     ]_vars

\* C31 witness: a request succeeded, a later one was dispatched at a later
\* time, failed through all its retries and was rejected; lastRequestTime is
\* still the time of the success.
PacingReferenceWitness ==
  \E e, f \in DOMAIN entries :
    /\ e < f
    /\ entries[e].state = "resolved"
    /\ entries[f].state = "rejected"
    /\ entries[f].attempts = options.maxRetries + 1
    /\ lastRequestTime > 0
    /\ lastRequestTime < lastDispatchAt

RetryCounter ==
  /\ [](\A e \in DOMAIN entries :
          /\ 0 <= entries[e].retryCount
          /\ entries[e].retryCount <= options.maxRetries + 1
          /\ InQueue(e) => entries[e].retryCount <= options.maxRetries
          /\ entries[e].retryCount = options.maxRetries + 1
               => entries[e].state = "rejected")
  /\ [][/\ \A e \in DOMAIN entries :
             entries'[e].retryCount =
               IF ExecFail /\ e = cur THEN entries[e].retryCount + 1
                                      ELSE entries[e].retryCount
        /\ \A e \in DOMAIN entries' :
             e \notin DOMAIN entries => entries'[e].retryCount = 0
     ]_vars

\* C33 witness: one entry was rejected with its count at maxRetries + 1,
\* another was resolved at its last permitted attempt and keeps its count
\* of maxRetries.
RetryCounterWitness ==
  \E e, f \in DOMAIN entries :
    /\ entries[e].state = "rejected"
    /\ entries[e].retryCount = options.maxRetries + 1
    /\ entries[f].state = "resolved"
    /\ entries[f].retryCount = options.maxRetries
    /\ options.maxRetries = 2

\* C34: the length test of enqueue measures the request it is given, before
\* the split test: a create of more than maxNodesPerRequest nodes that is
\* within the quota and longer than maxPayloadSize is rejected for its
\* length with nothing pushed, although each of its chunks would fit; a
\* create is split only if it passed the test as a whole, and every entry,
\* a chunk's included, passed it when it was enqueued.
PayloadCheckedWhole ==
  /\ [](/\ \A c \in DOMAIN calls :
             /\ calls[c].split
                  => payloadSize(calls[c].request) <= options.maxPayloadSize
             /\ calls[c].error = "payload"
                  => /\ calls[c].status = "rejected"
                     /\ \/ payloadSize(calls[c].request) > options.maxPayloadSize
                        \/ calls[c].split
        /\ \A e \in DOMAIN entries :
             payloadSize(entries[e].request) <= options.maxPayloadSize)
  /\ [][\A r \in Requests :
          (/\ Enqueue(r)
           /\ r.kind = "create"
           /\ Len(r.nodes) > options.maxNodesPerRequest
           /\ totalNodeCount + Len(r.nodes) <= options.maxWorkspaceNodes
           /\ payloadSize(r) > options.maxPayloadSize)
            => /\ calls'[Len(calls) + 1].status = "rejected"
               /\ calls'[Len(calls) + 1].error = "payload"
               /\ calls'[Len(calls) + 1].chunks = << >>
               /\ entries' = entries
               /\ queue' = queue
     ]_vars

\* C34 witness: a create was rejected for its length although every chunk
\* of it is short enough, and a shorter create of as many nodes was split
\* and has an entry for a chunk.
PayloadCheckedWholeWitness ==
  \E c, d \in DOMAIN calls :
    /\ calls[c].request.kind = "create"
    /\ Len(calls[c].request.nodes) > options.maxNodesPerRequest
    /\ calls[c].status = "rejected"
    /\ calls[c].error = "payload"
    /\ LET chunks == chunkNodes(calls[c].request.nodes,
                                options.maxNodesPerRequest)
       IN  \A i \in DOMAIN chunks :
             payloadSize(CreateRequest(chunks[i], calls[c].request.len))
               <= options.maxPayloadSize
    /\ calls[d].split
    /\ Len(calls[d].request.nodes) = Len(calls[c].request.nodes)
    /\ SubEntries(d) # << >>

\* C35: the loop of chunkNodes ends, for every maxNodesPerRequest including
\* 0 and the negative ones: its loop variable moves forward in every
\* iteration, so it makes at most as many iterations as there are nodes,
\* every chunk it builds is non-empty, and what it returns puts the nodes
\* back together.
ChunkingTerminates ==
  /\ Len(chunking.chunks) <= Len(chunking.nodes)
  /\ \A j \in DOMAIN chunking.chunks : chunking.chunks[j] # << >>
  /\ chunking.pc = "loop"
       => chunking.i >= Len(chunking.chunks)
  /\ chunking.pc = "returned"
       => chunking.chunks = chunkNodes(chunking.nodes, chunking.chunkSize)

\* C36: totalNodeCount is never negative: setNodeCount(c) stores c when it
\* is positive and 0 otherwise, resetNodeCount stores 0, a commit never
\* lowers the count, and nothing else lowers it.
CounterNonNegative ==
  /\ [](totalNodeCount >= 0)
  /\ [][/\ \A c \in SeedCounts :
             SetNodeCount(c) => totalNodeCount' = (IF c > 0 THEN c ELSE 0)
        /\ ResetNodeCount => totalNodeCount' = 0
        /\ Returned => totalNodeCount' >= totalNodeCount
        /\ totalNodeCount' < totalNodeCount
             => \/ ResetNodeCount
                \/ \E c \in SeedCounts : SetNodeCount(c)
     ]_vars

\* C36 witness: the executor reported created nodes, the commit counted
\* them, and the count is 0 again: setNodeCount was given a negative number
\* or resetNodeCount was called; requests were admitted on that count since.
CounterNonNegativeWitness ==
  /\ totalNodeCount = 0
  /\ \E e, f \in DOMAIN entries :
       /\ e < f
       /\ entries[e].state = "resolved"
       /\ entries[e].request.kind = "create"
       /\ entries[e].response.hasChildren
       /\ entries[e].response.children # << >>
       /\ entries[f].request.kind = "create"
====
